---- MODULE Spec2Model ----
(***************************************************************************)
(* Model of the hierarchy protection engine of ContainerObject.cpp:        *)
(* HideHierarchy, HideMaterials, ContainerObject::HideNodes,               *)
(* ContainerObject::ToggleProtect, ContainerIsProtected, ContainerProtect, *)
(* and of the members' guards and persistence: SetDParameter,              *)
(* GetDEnabling, Write and Read.                                           *)
(* The document (objects, tags, materials) is a fixed tree; the state is   *)
(* the NBIT_*/BIT_ACTIVE bits of every node and the protection members of  *)
(* every container.                                                        *)
(***************************************************************************)
EXTENDS Integers, FiniteSets, Sequences, TLC

VARIABLES
  nbits,              \* node -> set of NBIT_* hide bits that are set
  active,             \* node -> BIT_ACTIVE (selected)
  m_protected,        \* container -> ContainerObject::m_protected
  m_protectionHash,   \* container -> ContainerObject::m_protectionHash
  hideTags,           \* container -> bc->GetBool(NRCONTAINER_HIDE_TAGS)
  hideMaterials,      \* container -> bc->GetBool(NRCONTAINER_HIDE_MATERIALS)
  bcProtectionHash,   \* object -> bc->GetString(CONTAINEROBJECT_PROTECTIONHASH)
  info,               \* container -> NRCONTAINER_INFO_* id -> stored string
  m_customIcon,       \* container -> ContainerObject::m_customIcon != NULL
  hf,                 \* the record the most recent Write produced
  lockedWith,         \* container -> digest handed to its most recent lock
  last,               \* what the most recent operation did (observation record)
  rt                  \* lock/unlock round-trip tracker (observation record)

vars == <<nbits, active, m_protected, m_protectionHash, hideTags, hideMaterials,
          bcProtectionHash, info, m_customIcon, hf, lockedWith, last, rt>>

(***************************************************************************)
(* The document.                                                           *)
(*   objects:   A(container) - B(container) - X                            *)
(*                           \ O2 - Z            P (top level, after A)    *)
(*   tags:      A: tA1 (texture -> M1), tA2 (other)                        *)
(*              X: tX (texture -> M2)    Z: tZ (texture, dangling link)    *)
(*   materials: M1 - M2 - M3 in one list, M2c a child of M2                *)
(***************************************************************************)
NULL == "NULL"
CANCEL == "CANCEL"

Containers == {"A", "B"}
Objects == {"A", "B", "X", "O2", "Z", "P"}
Tags == {"tA1", "tA2", "tX", "tZ"}
Materials == {"M1", "M2", "M2c", "M3"}
Nodes == Objects \cup Tags \cup Materials

\* The structure is held in tables, looked up by the accessors below.
DownTable ==
  [n \in Nodes |->
     CASE n = "A" -> "B"
       [] n = "B" -> "X"
       [] n = "O2" -> "Z"
       [] n = "M2" -> "M2c"
       [] OTHER -> NULL]

NextTable ==
  [n \in Nodes |->
     CASE n = "A" -> "P"
       [] n = "B" -> "O2"
       [] n = "tA1" -> "tA2"
       [] n = "M1" -> "M2"
       [] n = "M2" -> "M3"
       [] OTHER -> NULL]

FirstTagTable ==
  [n \in Nodes |->
     CASE n = "A" -> "tA1"
       [] n = "X" -> "tX"
       [] n = "Z" -> "tZ"
       [] OTHER -> NULL]

TextureTags == {"tA1", "tX", "tZ"}

TypeTable ==
  [n \in Nodes |->
     CASE n \in Containers -> "Ocontainer"
       [] n \in Objects \ Containers -> "Onull"
       [] n \in TextureTags -> "Ttexture"
       [] n \in Tags \ TextureTags -> "Tphong"
       [] OTHER -> "Mmaterial"]

\* The material a texture tag links to (TEXTURETAG_MATERIAL); tZ dangles.
LinkTable ==
  [n \in Nodes |->
     CASE n = "tA1" -> "M1"
       [] n = "tX" -> "M2"
       [] OTHER -> NULL]

GetDown(n) == DownTable[n]

GetNext(n) == NextTable[n]

GetFirstTag(op) == FirstTagTable[op]

GetType(n) == TypeTable[n]

IsInstanceOfObase(n) == n \in Objects

TextureLink(tag) == LinkTable[tag]

\* Mutant: no link ever resolves.
GetLink_Unresolved(tag, doc, linkOk) == NULL

\* data.GetLink(doc, Mbase): with a document the link resolves to its material
\* (or to null when dangling); without a document the result depends on the
\* host, so the caller supplies it (linkOk).
GetLink(tag, doc, linkOk) ==
  IF doc # NULL \/ linkOk THEN TextureLink(tag) ELSE NULL

(***************************************************************************)
(* Passwords and the digest.                                               *)
(***************************************************************************)
NumPasswords == 2
PasswordList == <<"", "abc", "xyz", "qwe">>
Passwords == {PasswordList[i] : i \in 1..NumPasswords}

IsEmpty(s) == s = ""

\* HashString of Utils/Misc.h: a deterministic digest, never the empty string.
HashString(p) == "#" \o p

THE_DOC == "doc"

(***************************************************************************)
(* HideHierarchy                                                           *)
(***************************************************************************)
NBits == {"NBIT_OHIDE", "NBIT_TL1_HIDE", "NBIT_TL2_HIDE", "NBIT_TL3_HIDE",
          "NBIT_TL4_HIDE", "NBIT_THIDE"}

\* Mutant: the bits are flipped instead of set or cleared.
ChangeNBits_Toggle(st, root, hide, doc) ==
  [nbits  |-> [st.nbits EXCEPT ![root] = NBits \ @],
   active |-> [st.active EXCEPT ![root] = FALSE],
   undo   |-> IF doc # NULL THEN st.undo \cup {root} ELSE st.undo]

\* Mutant: BIT_ACTIVE is left alone.
ChangeNBits_KeepActive(st, root, hide, doc) ==
  [nbits  |-> [st.nbits EXCEPT ![root] = IF hide THEN @ \cup NBits ELSE @ \ NBits],
   active |-> st.active,
   undo   |-> IF doc # NULL THEN st.undo \cup {root} ELSE st.undo]

\* Mutant: only NBIT_OHIDE is changed.
ChangeNBits_ManagerOnly(st, root, hide, doc) ==
  [nbits  |-> [st.nbits EXCEPT ![root] = IF hide THEN @ \cup {"NBIT_OHIDE"}
                                         ELSE @ \ {"NBIT_OHIDE"}],
   active |-> [st.active EXCEPT ![root] = FALSE],
   undo   |-> IF doc # NULL THEN st.undo \cup {root} ELSE st.undo]

\* Mutant: the control word is always NBITCONTROL_SET.
ChangeNBits_SetOnly(st, root, hide, doc) ==
  [nbits  |-> [st.nbits EXCEPT ![root] = @ \cup NBits],
   active |-> [st.active EXCEPT ![root] = FALSE],
   undo   |-> IF doc # NULL THEN st.undo \cup {root} ELSE st.undo]

\* st is the record [nbits, active, undo] a traversal works on.
ChangeNBits(st, root, hide, doc) ==
  [nbits  |-> [st.nbits EXCEPT ![root] = IF hide THEN @ \cup NBits ELSE @ \ NBits],
   active |-> [st.active EXCEPT ![root] = FALSE],
   undo   |-> IF doc # NULL THEN st.undo \cup {root} ELSE st.undo]

ContainerIsProtected(prot, op) ==
  /\ op # NULL
  /\ GetType(op) = "Ocontainer"
  /\ prot[op]

\* Mutant: the ContainerIsProtected test is missing.
HideChildren_NoBoundary(prot, bch, root) ==
  IF IsInstanceOfObase(root) THEN IsEmpty(bch[root]) ELSE TRUE

HideChildren(prot, bch, root) ==
  IF IsInstanceOfObase(root)
  THEN IF ~IsEmpty(bch[root]) THEN FALSE
       ELSE IF ContainerIsProtected(prot, root) THEN FALSE
       ELSE TRUE
  ELSE TRUE

RECURSIVE HideHierarchy(_, _, _, _, _, _, _)
HideHierarchy(st, prot, bch, root, hide, doc, sameLevel) ==
  IF root = NULL THEN st
  ELSE LET s1 == ChangeNBits(st, root, hide, doc)
           s2 == IF HideChildren(prot, bch, root)
                 THEN HideHierarchy(s1, prot, bch, GetDown(root), hide, doc, TRUE)
                 ELSE s1
       IN IF ~sameLevel THEN s2
          ELSE HideHierarchy(s2, prot, bch, GetNext(root), hide, doc, TRUE)

(***************************************************************************)
(* HideMaterials                                                           *)
(***************************************************************************)
RECURSIVE HideMaterialsTags(_, _, _, _, _, _, _)
HideMaterialsTags(st, prot, bch, tag, hide, doc, linkOk) ==
  IF tag = NULL THEN st
  ELSE LET mat == IF GetType(tag) = "Ttexture" THEN GetLink(tag, doc, linkOk) ELSE NULL
           s1 == IF mat # NULL
                 THEN HideHierarchy(st, prot, bch, mat, hide, doc, FALSE)
                 ELSE st
       IN HideMaterialsTags(s1, prot, bch, GetNext(tag), hide, doc, linkOk)

RECURSIVE HideMaterials(_, _, _, _, _, _, _)
RECURSIVE HideMaterialsLevel(_, _, _, _, _, _, _)
HideMaterials(st, prot, bch, op, hide, doc, linkOk) ==
  LET s1 == HideMaterialsTags(st, prot, bch, GetFirstTag(op), hide, doc, linkOk)
  IN HideMaterialsLevel(s1, prot, bch, GetDown(op), hide, doc, linkOk)

HideMaterialsLevel(st, prot, bch, child, hide, doc, linkOk) ==
  IF child = NULL THEN st
  ELSE HideMaterialsLevel(HideMaterials(st, prot, bch, child, hide, doc, linkOk),
                          prot, bch, GetNext(child), hide, doc, linkOk)

(***************************************************************************)
(* ContainerObject::HideNodes                                              *)
(***************************************************************************)
\* Mutant: the flag is consulted when revealing too.
HideTagsWanted_FlagOnReveal(op, hide) == hideTags[op]

\* Mutant: the tags are only ever revealed, the flag is not consulted.
HideTagsWanted_RevealOnly(op, hide) == ~hide

HideTagsWanted(op, hide) == IF hide THEN hideTags[op] ELSE TRUE

\* Mutant: the flag is consulted when revealing too.
HideMaterialsWanted_FlagOnReveal(op, hide) == hideMaterials[op]

HideMaterialsWanted(op, hide) == IF hide THEN hideMaterials[op] ELSE TRUE

HideNodes(st, prot, bch, op, doc, hide, linkOk) ==
  LET s1 == HideHierarchy(st, prot, bch, GetDown(op), hide, doc, TRUE)
      s2 == IF HideTagsWanted(op, hide)
            THEN HideHierarchy(s1, prot, bch, GetFirstTag(op), hide, doc, TRUE)
            ELSE s1
      s3 == IF HideMaterialsWanted(op, hide)
            THEN HideMaterials(s2, prot, bch, op, hide, doc, linkOk)
            ELSE s2
  IN s3

(***************************************************************************)
(* Observation records.  last describes the most recent operation; rt      *)
(* follows a ToggleProtect lock that is directly followed by a successful  *)
(* ToggleProtect unlock of the same container, with the bits and the       *)
(* m_protectionHash member before the lock.                                *)
(***************************************************************************)
NoOp ==
  [op |-> "none", node |-> NULL, outcome |-> "none", prompted |-> FALSE,
   entered |-> NULL, dialog |-> FALSE, notified |-> FALSE, hide |-> "none",
   links |-> FALSE, undo |-> {}, ret |-> TRUE,
   pass |-> NULL, hash |-> NULL, packup |-> FALSE,
   id |-> NULL, value |-> NULL, level |-> 0, record |-> <<>>, root |-> NULL,
   sameLevel |-> FALSE]

NoRt == [stage |-> 0, c |-> NULL, bits0 |-> <<>>, hash0 |-> ""]

State == [nbits |-> nbits, active |-> active, undo |-> {}]

(***************************************************************************)
(* ContainerObject::Init and the document the containers are created in.   *)
(***************************************************************************)
Documents ==
  { [hidden |-> {}, active |-> {}, legacy |-> {}],
    [hidden |-> {"X", "Z", "tZ", "M3", "tA2"}, active |-> {"X", "tA1", "M1", "P"},
     legacy |-> {"O2"}] }

InitDocument(d) ==
  /\ nbits = [n \in Nodes |-> IF n \in d.hidden THEN NBits ELSE {}]
  /\ active = [n \in Nodes |-> n \in d.active]
  /\ bcProtectionHash = [o \in Objects |-> IF o \in d.legacy THEN "legacy" ELSE ""]

\* The six description ids SetDParameter and GetDEnabling guard.
InfoIds ==
  {"NRCONTAINER_INFO_NAME", "NRCONTAINER_INFO_VERSION", "NRCONTAINER_INFO_URL",
   "NRCONTAINER_INFO_AUTHOR", "NRCONTAINER_INFO_AUTHOR_EMAIL",
   "NRCONTAINER_INFO_DESCRIPTION"}

\* No Write has happened: no items; locked and hash are the writer's members
\* at the time of the Write.
NoFile == [data |-> <<>>, locked |-> FALSE, hash |-> ""]

InitContainers ==
  /\ m_protected = [c \in Containers |-> FALSE]
  /\ m_protectionHash = [c \in Containers |-> ""]
  /\ hideTags = [c \in Containers |-> FALSE]
  /\ hideMaterials = [c \in Containers |-> TRUE]
  /\ info = [c \in Containers |-> [i \in InfoIds |-> ""]]
  /\ m_customIcon = [c \in Containers |-> FALSE]
  /\ lockedWith = [c \in Containers |-> ""]
  /\ hf = NoFile

Init ==
  /\ \E d \in Documents : InitDocument(d)
  /\ InitContainers
  /\ last = NoOp
  /\ rt = NoRt

(***************************************************************************)
(* ContainerObject::ToggleProtect.  dlg is what PasswordDialog yields when *)
(* it is called: CANCEL or the entered password.                           *)
(***************************************************************************)
\* Mutant: any entered password unlocks.
UnlockGranted_AnyEntry(hash, dlg) ==
  IF hash = HashString("") THEN TRUE ELSE dlg # CANCEL

\* Mutant: the empty-password shortcut is missing.
UnlockGranted_NoShortcut(hash, dlg) ==
  IF dlg # CANCEL THEN hash = HashString(dlg) ELSE FALSE

UnlockGranted(hash, dlg) ==
  LET emptyPassHash == HashString("")
  IN IF hash = emptyPassHash THEN TRUE
     ELSE IF dlg # CANCEL THEN hash = HashString(dlg)
     ELSE FALSE

UnlockPrompts(hash) == hash # HashString("")

\* Mutant: the unlock assigns the empty string.
HashAfterUnlock_Cleared(hash) == ""

\* m_protectionHash after a successful unlock: the member is not assigned.
HashAfterUnlock(hash) == hash

\* Mutant: the cancelled lock falls through to the tail as well.
TailReached_Always(wasProtected, dlg) == TRUE

\* Whether the tail of ToggleProtect (MSG_CHANGE, SetDirty, EventAdd) is reached.
TailReached(wasProtected, dlg) ==
  IF ~wasProtected THEN dlg # CANCEL ELSE TRUE

\* Mutant: a hash already in the member is kept when locking.
HashAfterLock_KeepStale(old, hashed) == IF IsEmpty(old) THEN hashed ELSE old

\* m_protectionHash after a lock: the member is assigned the new digest.
HashAfterLock(old, hashed) == hashed

ToggleProtect(op, dlg) ==
  /\ op \in Containers
  /\ UNCHANGED <<hideTags, hideMaterials, bcProtectionHash, info, m_customIcon, hf>>
  /\ IF ~m_protected[op]
     THEN IF dlg = CANCEL
          THEN /\ UNCHANGED <<nbits, active, m_protected, m_protectionHash, lockedWith>>
               /\ last' = [NoOp EXCEPT !.op = "toggle", !.node = op,
                                       !.outcome = "cancelled", !.prompted = TRUE,
                                       !.entered = dlg,
                                       !.notified = TailReached(FALSE, dlg)]
               /\ rt' = NoRt
          ELSE LET hashed == HashString(dlg)
                   prot == [m_protected EXCEPT ![op] = TRUE]
                   s == HideNodes(State, prot, bcProtectionHash, op, THE_DOC, TRUE, TRUE)
               IN /\ m_protected' = prot
                  /\ m_protectionHash' =
                       [m_protectionHash EXCEPT ![op] = HashAfterLock(@, hashed)]
                  /\ lockedWith' = [lockedWith EXCEPT ![op] = HashString(dlg)]
                  /\ nbits' = s.nbits
                  /\ active' = s.active
                  /\ last' = [NoOp EXCEPT !.op = "toggle", !.node = op,
                                          !.outcome = "locked", !.prompted = TRUE,
                                          !.entered = dlg,
                                          !.notified = TailReached(FALSE, dlg),
                                          !.hide = "hide", !.links = TRUE,
                                          !.undo = s.undo]
                  /\ rt' = [stage |-> 1, c |-> op, bits0 |-> nbits,
                            hash0 |-> m_protectionHash[op]]
     ELSE LET hash == m_protectionHash[op]
              prompted == UnlockPrompts(hash)
              unlock == UnlockGranted(hash, dlg)
          IN IF unlock
             THEN LET prot == [m_protected EXCEPT ![op] = FALSE]
                      s == HideNodes(State, prot, bcProtectionHash, op, THE_DOC, FALSE, TRUE)
                  IN /\ m_protected' = prot
                     /\ m_protectionHash' =
                          [m_protectionHash EXCEPT ![op] = HashAfterUnlock(hash)]
                     /\ nbits' = s.nbits
                     /\ active' = s.active
                     /\ UNCHANGED lockedWith
                     /\ last' = [NoOp EXCEPT !.op = "toggle", !.node = op,
                                             !.outcome = "unlocked",
                                             !.prompted = prompted,
                                             !.entered = IF prompted THEN dlg ELSE NULL,
                                             !.notified = TailReached(TRUE, dlg),
                                             !.hide = "reveal", !.links = TRUE,
                                             !.undo = s.undo]
                     /\ rt' = IF rt.stage = 1 /\ rt.c = op
                              THEN [rt EXCEPT !.stage = 2]
                              ELSE NoRt
             ELSE /\ UNCHANGED <<nbits, active, m_protected, m_protectionHash, lockedWith>>
                  /\ last' = [NoOp EXCEPT !.op = "toggle", !.node = op,
                                          !.outcome = IF dlg = CANCEL THEN "cancelled"
                                                      ELSE "wrongpw",
                                          !.prompted = prompted,
                                          !.entered = dlg,
                                          !.dialog = (dlg # CANCEL),
                                          !.notified = TailReached(TRUE, dlg)]
                  /\ rt' = NoRt

(***************************************************************************)
(* ContainerProtect                                                        *)
(***************************************************************************)
\* Mutant: the m_protected test is missing.
ProtectRefused_Relock(op) ==
  \/ op = NULL
  \/ GetType(op) # "Ocontainer"

ProtectRefused(op) ==
  \/ op = NULL
  \/ GetType(op) # "Ocontainer"
  \/ m_protected[op]

\* Mutant: the digest handed in is ignored.
ProtectionHashFor_AlwaysHashed(pass, hash) == HashString(pass)

\* The digest ContainerProtect stores.
ProtectionHashFor(pass, hash) == IF IsEmpty(hash) THEN HashString(pass) ELSE hash

ContainerProtect(op, pass, hash, packup, linkOk) ==
  /\ UNCHANGED <<hideTags, hideMaterials, bcProtectionHash, info, m_customIcon, hf>>
  /\ rt' = NoRt
  /\ IF ProtectRefused(op)
     THEN /\ UNCHANGED <<nbits, active, m_protected, m_protectionHash, lockedWith>>
          /\ last' = [NoOp EXCEPT !.op = "protect", !.node = op,
                                  !.outcome = "refused", !.ret = FALSE]
     ELSE LET h == ProtectionHashFor(pass, hash)
              prot == [m_protected EXCEPT ![op] = TRUE]
              s == IF packup
                   THEN HideNodes(State, prot, bcProtectionHash, op, NULL, packup, linkOk)
                   ELSE State
          IN /\ m_protected' = prot
             /\ m_protectionHash' = [m_protectionHash EXCEPT ![op] = HashAfterLock(@, h)]
             /\ lockedWith' =
                  [lockedWith EXCEPT ![op] = IF hash # "" THEN hash ELSE HashString(pass)]
             /\ nbits' = s.nbits
             /\ active' = s.active
             /\ last' = [NoOp EXCEPT !.op = "protect", !.node = op,
                                     !.outcome = "locked",
                                     !.pass = pass, !.hash = hash, !.packup = packup,
                                     !.hide = IF packup THEN "hide" ELSE "none",
                                     !.links = (packup /\ linkOk),
                                     !.undo = s.undo, !.ret = TRUE]

(***************************************************************************)
(* A parameter edit of NRCONTAINER_HIDE_TAGS / NRCONTAINER_HIDE_MATERIALS, *)
(* which SetDParameter passes on to the base class in every lock state.    *)
(* B carries no tags, so only its NRCONTAINER_HIDE_MATERIALS is edited.    *)
(***************************************************************************)
EditableFlags ==
  {<<"A", "NRCONTAINER_HIDE_TAGS">>, <<"A", "NRCONTAINER_HIDE_MATERIALS">>,
   <<"B", "NRCONTAINER_HIDE_MATERIALS">>}

SetHideFlag(op, id, value) ==
  /\ <<op, id>> \in EditableFlags
  /\ IF id = "NRCONTAINER_HIDE_TAGS"
     THEN /\ value # hideTags[op]
          /\ hideTags' = [hideTags EXCEPT ![op] = value]
          /\ UNCHANGED hideMaterials
     ELSE /\ value # hideMaterials[op]
          /\ hideMaterials' = [hideMaterials EXCEPT ![op] = value]
          /\ UNCHANGED hideTags
  /\ last' = [NoOp EXCEPT !.op = "setflag", !.node = op]
  /\ rt' = NoRt
  /\ UNCHANGED <<nbits, active, m_protected, m_protectionHash, bcProtectionHash,
                 info, m_customIcon, hf, lockedWith>>

\* The nodes other plugin code hands to ContainerProtect.
ProtectTargets == Containers \cup {"X", NULL}

\* The <<pass, hash>> pairs handed to ContainerProtect: every password with
\* no hash, and a password together with the digest of another one.
ProtectArgs ==
  {<<p, "">> : p \in Passwords} \cup {<<PasswordList[NumPasswords], HashString("")>>}

\* GetLink is only reached when ContainerProtect gets to pack up.
LinkOutcomes(op, packup) ==
  IF packup /\ ~ProtectRefused(op) THEN BOOLEAN ELSE {TRUE}

Next ==
  \/ \E op \in Containers, dlg \in Passwords \cup {CANCEL} : ToggleProtect(op, dlg)
  \/ \E op \in ProtectTargets, a \in ProtectArgs, packup \in BOOLEAN :
       \E linkOk \in LinkOutcomes(op, packup) :
         ContainerProtect(op, a[1], a[2], packup, linkOk)
  \/ \E f \in EditableFlags, value \in BOOLEAN : SetHideFlag(f[1], f[2], value)

Spec == Init /\ [][Next]_vars

(***************************************************************************)
(* Interactive use only: a document with nothing hidden and nothing        *)
(* protected, and ToggleProtect requests on any container.                 *)
(***************************************************************************)
CleanDocument == [hidden |-> {}, active |-> {}, legacy |-> {}]

InitClean ==
  /\ InitDocument(CleanDocument)
  /\ InitContainers
  /\ last = NoOp
  /\ rt = NoRt

NextToggle ==
  \E op \in Containers, dlg \in Passwords \cup {CANCEL} : ToggleProtect(op, dlg)

SpecToggle == InitClean /\ [][NextToggle]_vars

(***************************************************************************)
(* Sets of nodes the properties speak about, read off the document         *)
(* structure (not off the traversals).                                     *)
(***************************************************************************)
RECURSIVE Chain(_)
Chain(n) == IF n = NULL THEN {} ELSE {n} \cup Chain(NextTable[n])

ChildrenTable == [n \in Nodes |-> Chain(DownTable[n])]

RECURSIVE Below(_)
Below(n) == ChildrenTable[n] \cup UNION {Below(c) : c \in ChildrenTable[n]}

DescendantsTable == [n \in Nodes |-> Below(n)]

TagsTable == [n \in Nodes |-> Chain(FirstTagTable[n])]

Children(n) == ChildrenTable[n]

Descendants(n) == DescendantsTable[n]

TagsOf(op) == TagsTable[op]

\* A node whose children HideHierarchy leaves alone.
IsProtectedNode(prot, o) ==
  \/ bcProtectionHash[o] # ""
  \/ (o \in Containers /\ prot[o])

\* d lies strictly below a protected node that lies strictly below c.
Shielded(prot, c, d) ==
  \E b \in Descendants(c) : IsProtectedNode(prot, b) /\ d \in Descendants(b)

\* The materials linked by texture tags on c or on a descendant of c, with the
\* materials below them.
LinkedMaterials(c) ==
  {LinkTable[t] : t \in UNION {TagsTable[o] : o \in {c} \cup DescendantsTable[c]}}
    \ {NULL}

RefMaterialsTable ==
  [c \in Containers |->
     LinkedMaterials(c) \cup UNION {DescendantsTable[m] : m \in LinkedMaterials(c)}]

RefMaterials(c) == RefMaterialsTable[c]

Hidden(bits, n) == bits[n] = NBits
Revealed(bits, n) == bits[n] = {}

SameNode(n) == nbits'[n] = nbits[n] /\ active'[n] = active[n]

LockStateUnchanged ==
  /\ m_protected' = m_protected
  /\ m_protectionHash' = m_protectionHash
  /\ nbits' = nbits
  /\ active' = active

(***************************************************************************)
(* C1  Boundary invariant: when HideNodes runs on a container (hiding or   *)
(* revealing) that has a locked container b among its descendants, every   *)
(* object strictly below b keeps its six bits and its selected flag.       *)
(***************************************************************************)
BoundaryRespected ==
  [][\A b \in Containers, x \in Objects :
       ( /\ last'.hide # "none"
         /\ b \in Descendants(last'.node)
         /\ m_protected[b]
         /\ x \in Descendants(b) )
       => SameNode(x)]_vars

BoundaryWitness ==
  /\ last.hide = "reveal"
  /\ last.node = "A"
  /\ m_protected["B"]
  /\ Revealed(nbits, "B")
  /\ Hidden(nbits, "X")

(***************************************************************************)
(* C2  Authentication failure: a ToggleProtect on a locked container whose *)
(* stored hash is not hash("") with an entered password of another hash    *)
(* keeps the container locked, keeps the hash, changes no bit and no       *)
(* selected flag of any node, and shows the failure message.               *)
(***************************************************************************)
WrongPasswordNoChange ==
  [][\A c \in Containers :
       ( /\ last'.op = "toggle"
         /\ last'.node = c
         /\ m_protected[c]
         /\ m_protectionHash[c] # HashString("")
         /\ last'.entered \in Passwords
         /\ HashString(last'.entered) # m_protectionHash[c] )
       => ( /\ m_protected'[c]
            /\ LockStateUnchanged
            /\ last'.dialog )]_vars

WrongPasswordWitness ==
  /\ last.op = "toggle"
  /\ last.outcome = "wrongpw"
  /\ last.entered \in Passwords
  /\ m_protected[last.node]
  /\ \E d \in Descendants(last.node) : Hidden(nbits, d)

(***************************************************************************)
(* C3  Round trip as claimed: a ToggleProtect lock directly followed by    *)
(* the ToggleProtect unlock of the same container returns the six bits of  *)
(* every descendant object to their values before the lock.                *)
(***************************************************************************)
RoundTripRestores ==
  rt.stage = 2 => \A d \in Descendants(rt.c) : nbits[d] = rt.bits0[d]

(***************************************************************************)
(* C3 (amended)  After the lock and the unlock, every descendant object    *)
(* that is not below a nested protected node has all six bits cleared,     *)
(* whatever they were before the lock; every descendant object below a     *)
(* nested protected node has the bits it had before the lock.              *)
(***************************************************************************)
RoundTripClears ==
  rt.stage = 2 =>
    \A d \in Descendants(rt.c) :
      IF Shielded(m_protected, rt.c, d)
      THEN nbits[d] = rt.bits0[d]
      ELSE Revealed(nbits, d)

RoundTripWitness ==
  /\ rt.stage = 2
  /\ \E d \in Descendants(rt.c) :
       ~Shielded(m_protected, rt.c, d) /\ rt.bits0[d] = NBits /\ Revealed(nbits, d)

(***************************************************************************)
(* C4  As claimed: after a successful unlock by ToggleProtect the          *)
(* container is unlocked and its protection hash is the empty string.      *)
(***************************************************************************)
UnlockClearsHash ==
  (last.op = "toggle" /\ last.outcome = "unlocked")
    => (~m_protected[last.node] /\ m_protectionHash[last.node] = "")

(***************************************************************************)
(* C4 (amended)  After a successful unlock by ToggleProtect the container  *)
(* is unlocked and its protection hash is still the hash it was locked     *)
(* with.                                                                   *)
(***************************************************************************)
UnlockKeepsHash ==
  [][(last'.op = "toggle" /\ last'.outcome = "unlocked")
       => ( /\ m_protected[last'.node]
            /\ ~m_protected'[last'.node]
            /\ m_protectionHash' = m_protectionHash
            /\ ~IsEmpty(m_protectionHash'[last'.node]) )]_vars

UnlockWitness ==
  /\ last.op = "toggle"
  /\ last.outcome = "unlocked"
  /\ last.prompted
  /\ ~m_protected[last.node]
  /\ m_protectionHash[last.node] = HashString(last.entered)

(***************************************************************************)
(* C5  As claimed: a cancelled password prompt, on an unlocked and on a    *)
(* locked container, changes nothing and signals no change notification.   *)
(***************************************************************************)
CancelSilent ==
  [][(last'.op = "toggle" /\ last'.outcome = "cancelled")
       => (LockStateUnchanged /\ ~last'.notified)]_vars

(***************************************************************************)
(* C5 (amended)  A cancelled password prompt changes no lock state, hash   *)
(* or visibility; no notification is signalled when the container is       *)
(* unlocked, and the change notification is signalled when it is locked.   *)
(***************************************************************************)
CancelNoMutation ==
  [][(last'.op = "toggle" /\ last'.outcome = "cancelled")
       => ( /\ last'.entered = CANCEL
            /\ LockStateUnchanged
            /\ last'.notified = m_protected[last'.node] )]_vars

CancelWitness ==
  /\ last.op = "toggle"
  /\ last.outcome = "cancelled"
  /\ m_protected[last.node]
  /\ last.notified
  /\ \E d \in Descendants(last.node) : Hidden(nbits, d)

(***************************************************************************)
(* C6  Locked implies hidden: every descendant object of every locked      *)
(* container has all its visibility bits set.                              *)
(***************************************************************************)
LockedImpliesHidden ==
  \A c \in Containers :
    m_protected[c] => \A d \in Descendants(c) : Hidden(nbits, d)

(***************************************************************************)
(* C7  As claimed: right after ToggleProtect locks a container c with both *)
(* hide flags set and no protected node below it, every tag of c and of    *)
(* every descendant, every descendant and every referenced material is     *)
(* hidden.                                                                 *)
(***************************************************************************)
LockNoProtectedBelow(c) ==
  /\ last.op = "toggle"
  /\ last.outcome = "locked"
  /\ last.node = c
  /\ hideTags[c]
  /\ hideMaterials[c]
  /\ \A d \in Descendants(c) : ~IsProtectedNode(m_protected, d)

LockHidesAllTags ==
  \A c \in Containers :
    LockNoProtectedBelow(c) =>
      /\ \A o \in {c} \cup Descendants(c) : \A t \in TagsOf(o) : Hidden(nbits, t)
      /\ \A d \in Descendants(c) : Hidden(nbits, d)
      /\ \A m \in RefMaterials(c) : Hidden(nbits, m)

(***************************************************************************)
(* C7 (amended)  Right after such a lock every tag attached to c itself,   *)
(* every descendant object and every referenced material is hidden; the    *)
(* tags attached to descendant objects keep the bits they had.             *)
(***************************************************************************)
LockHidesOwnTags ==
  [][\A c \in Containers :
       LockNoProtectedBelow(c)' =>
         /\ \A t \in TagsOf(c) : Hidden(nbits', t) /\ ~active'[t]
         /\ \A d \in Descendants(c) : Hidden(nbits', d) /\ ~active'[d]
         /\ \A m \in RefMaterials(c) : Hidden(nbits', m) /\ ~active'[m]
         /\ \A d \in Descendants(c) : \A t \in TagsOf(d) : SameNode(t)]_vars

LockTagsWitness ==
  /\ LockNoProtectedBelow("A")
  /\ Hidden(nbits, "tA1") /\ Hidden(nbits, "tA2")
  /\ Hidden(nbits, "X") /\ Hidden(nbits, "M2c")
  /\ Revealed(nbits, "tX")

(***************************************************************************)
(* C8  HideNodes asymmetry: hiding always hides the child hierarchy (down  *)
(* to nested protected nodes), hides the container's own tags exactly when *)
(* hideTags is set and the referenced materials exactly when hideMaterials *)
(* is set (otherwise they keep their state); revealing reveals all three   *)
(* whatever the flags are.                                                 *)
(***************************************************************************)
HideNodesAsymmetry ==
  [][\A c \in Containers :
       (last'.hide # "none" /\ last'.node = c) =>
         IF last'.hide = "hide"
         THEN /\ \A k \in Children(c) : Hidden(nbits', k) /\ ~active'[k]
              /\ \A d \in Descendants(c) :
                   ~Shielded(m_protected, c, d) => Hidden(nbits', d)
              /\ \A t \in TagsOf(c) :
                   IF hideTags[c] THEN Hidden(nbits', t) ELSE SameNode(t)
              /\ IF hideMaterials[c] /\ last'.links
                 THEN \A m \in RefMaterials(c) : Hidden(nbits', m)
                 ELSE \A m \in Materials : SameNode(m)
         ELSE /\ \A k \in Children(c) : Revealed(nbits', k) /\ ~active'[k]
              /\ \A d \in Descendants(c) :
                   ~Shielded(m_protected, c, d) => Revealed(nbits', d)
              /\ \A t \in TagsOf(c) : Revealed(nbits', t)
              /\ \A m \in RefMaterials(c) : Revealed(nbits', m)]_vars

\* A was unlocked with both flags off: its tags and materials are revealed.
HideNodesWitness ==
  /\ last.hide = "reveal"
  /\ last.node = "A"
  /\ ~hideTags["A"]
  /\ ~hideMaterials["A"]
  /\ Revealed(nbits, "tA1") /\ Revealed(nbits, "M1") /\ Revealed(nbits, "B")

(***************************************************************************)
(* C9  Empty-password unlock: ToggleProtect on a locked container whose    *)
(* stored hash is hash("") does not call the password prompt, unlocks the  *)
(* container and reveals its children, its tags and its materials.         *)
(***************************************************************************)
EmptyPasswordUnlock ==
  [][\A c \in Containers :
       ( /\ last'.op = "toggle"
         /\ last'.node = c
         /\ m_protected[c]
         /\ m_protectionHash[c] = HashString("") )
       => ( /\ ~last'.prompted
            /\ last'.entered = NULL
            /\ ~m_protected'[c]
            /\ \A k \in Children(c) : Revealed(nbits', k)
            /\ \A t \in TagsOf(c) : Revealed(nbits', t)
            /\ \A m \in RefMaterials(c) : Revealed(nbits', m) )]_vars

EmptyPasswordWitness ==
  /\ last.op = "toggle"
  /\ last.outcome = "unlocked"
  /\ ~last.prompted
  /\ last.node = "A"
  /\ ~m_protected["A"]
  /\ m_protectionHash["A"] = HashString("")
  /\ Revealed(nbits, "B") /\ Revealed(nbits, "tA1") /\ Revealed(nbits, "M1")

(***************************************************************************)
(* C10  ContainerProtect on a null node, on a node that is no container or *)
(* on a locked container returns false and changes no lock state, no hash  *)
(* and no visibility, whatever the other arguments are.                    *)
(***************************************************************************)
ProtectRefusedNoMutation ==
  [][( /\ last'.op = "protect"
       /\ \/ last'.node = NULL
          \/ last'.node \notin Containers
          \/ m_protected[last'.node] )
     => ( /\ ~last'.ret
          /\ LockStateUnchanged
          /\ UNCHANGED <<hideTags, hideMaterials>> )]_vars

\* A was locked without packing up; a second Protect was refused and left
\* its children visible.
ProtectRefusedWitness ==
  /\ last.op = "protect"
  /\ ~last.ret
  /\ last.node = "A"
  /\ m_protected["A"]
  /\ Revealed(nbits, "B")

(***************************************************************************)
(* C11  ContainerProtect on an unlocked container returns true, sets       *)
(* m_protected, stores the digest handed in when that is not empty and     *)
(* the digest of the password otherwise; it hides the children exactly     *)
(* when packup is requested, and without packup no bit and no selected     *)
(* flag of any node changes.                                               *)
(***************************************************************************)
ProtectAccepted ==
  [][\A c \in Containers :
       (last'.op = "protect" /\ last'.node = c /\ ~m_protected[c])
       => ( /\ last'.ret
            /\ m_protected'[c]
            /\ m_protectionHash'[c] =
                 IF last'.hash # "" THEN last'.hash ELSE HashString(last'.pass)
            /\ \A b \in Containers \ {c} :
                 /\ m_protected'[b] = m_protected[b]
                 /\ m_protectionHash'[b] = m_protectionHash[b]
            /\ (last'.hide = "hide") = last'.packup
            /\ IF last'.packup
               THEN \A k \in Children(c) : Hidden(nbits', k) /\ ~active'[k]
               ELSE nbits' = nbits /\ active' = active )]_vars

\* A was locked with a digest handed in, next to a password of another
\* digest, and without packing up: its selected child is still visible.
ProtectAcceptedWitness ==
  /\ last.op = "protect"
  /\ last.ret
  /\ last.node = "A"
  /\ last.hash = HashString("")
  /\ last.pass # ""
  /\ ~last.packup
  /\ m_protected["A"]
  /\ m_protectionHash["A"] = HashString("")
  /\ Revealed(nbits, "B")

(***************************************************************************)
(* ContainerObject::SetDParameter and ContainerObject::GetDEnabling for    *)
(* the six NRCONTAINER_INFO_* parameters.  A request that is passed on to  *)
(* the base class is stored in the container's parameters.                 *)
(***************************************************************************)
\* Mutant: the m_protected test is missing, every request is passed on.
SetDParameterSwallows_Never(prot, id) == FALSE

\* Whether SetDParameter returns before the base class sees the request.
SetDParameterSwallows(prot, id) == IF id \in InfoIds THEN prot ELSE FALSE

SetDParameter(node, id, data) ==
  /\ node \in Containers
  /\ id \in InfoIds
  /\ IF SetDParameterSwallows(m_protected[node], id)
     THEN /\ UNCHANGED info
          /\ last' = [NoOp EXCEPT !.op = "setparam", !.node = node, !.id = id,
                                  !.value = data, !.outcome = "swallowed",
                                  !.ret = TRUE]
     ELSE /\ info' = [info EXCEPT ![node][id] = data]
          /\ last' = [NoOp EXCEPT !.op = "setparam", !.node = node, !.id = id,
                                  !.value = data, !.outcome = "stored",
                                  !.ret = TRUE]
  /\ rt' = NoRt
  /\ UNCHANGED <<nbits, active, m_protected, m_protectionHash, hideTags,
                 hideMaterials, bcProtectionHash, m_customIcon, hf, lockedWith>>

GetDEnabling(node, id) ==
  /\ node \in Containers
  /\ id \in InfoIds
  /\ last' = [NoOp EXCEPT !.op = "enabling", !.node = node, !.id = id,
                          !.ret = ~m_protected[node]]
  /\ rt' = NoRt
  /\ UNCHANGED <<nbits, active, m_protected, m_protectionHash, hideTags,
                 hideMaterials, bcProtectionHash, info, m_customIcon, hf,
                 lockedWith>>

\* The strings written to the parameters.
InfoValues == {"", "text"}

\* The container whose parameters are edited; it is locked and unlocked in
\* between.
InfoContainer == "B"

NextInfo ==
  \/ \E dlg \in Passwords \cup {CANCEL} : ToggleProtect(InfoContainer, dlg)
  \/ \E id \in InfoIds, data \in InfoValues : SetDParameter(InfoContainer, id, data)
  \/ \E id \in InfoIds : GetDEnabling(InfoContainer, id)

SpecInfo == InitClean /\ [][NextInfo]_vars

(***************************************************************************)
(* C12  A set request on one of the six NRCONTAINER_INFO_* parameters of a *)
(* locked container is reported as handled and leaves every stored value   *)
(* unchanged; on an unlocked container it is reported as handled and the   *)
(* stored value becomes the requested one; each of the six parameters is   *)
(* reported enabled exactly when the container is not locked.              *)
(***************************************************************************)
InfoGuarded ==
  [][\A c \in Containers, i \in InfoIds :
       /\ (last'.op = "setparam" /\ last'.node = c /\ last'.id = i)
          => ( /\ last'.ret
               /\ IF m_protected[c]
                  THEN info' = info
                  ELSE info' = [info EXCEPT ![c][i] = last'.value] )
       /\ (last'.op = "enabling" /\ last'.node = c /\ last'.id = i)
          => (last'.ret = ~m_protected[c] /\ info' = info)]_vars

\* A value was stored, the container locked, and a request for another value
\* was swallowed.
InfoGuardedWitness ==
  /\ last.op = "setparam"
  /\ last.ret
  /\ m_protected[last.node]
  /\ info[last.node][last.id] = "text"
  /\ last.value = ""

(***************************************************************************)
(* ContainerObject::Write and ContainerObject::Read.  A HyperFile is the   *)
(* sequence of typed items written to it; a read of an item fails when the *)
(* file has no further item or the item has another type.                  *)
(***************************************************************************)
LockFieldsLevel == 1000

BoolItem(b) == [t |-> "bool", v |-> b]
StringItem(str) == [t |-> "string", v |-> str]
ImageItem == [t |-> "image", v |-> "png"]

\* VERSION 0 part of Write.
IconItems(icon) ==
  IF icon THEN <<BoolItem(TRUE), ImageItem>> ELSE <<BoolItem(FALSE)>>

\* Mutant: the hash is written in every lock state.
LockItems_HashAlways(prot, hash) == <<BoolItem(prot), StringItem(hash)>>

\* VERSION 1000 part of Write.
LockItems(prot, hash) ==
  IF prot THEN <<BoolItem(prot), StringItem(hash)>> ELSE <<BoolItem(prot)>>

WriteItems(icon, prot, hash) == IconItems(icon) \o LockItems(prot, hash)

Write(node) ==
  /\ node \in Containers
  /\ hf' = [data   |-> WriteItems(m_customIcon[node], m_protected[node],
                                  m_protectionHash[node]),
            locked |-> m_protected[node],
            hash   |-> m_protectionHash[node]]
  /\ last' = [NoOp EXCEPT !.op = "write", !.node = node, !.record = hf'.data,
                          !.level = LockFieldsLevel, !.ret = TRUE]
  /\ rt' = NoRt
  /\ UNCHANGED <<nbits, active, m_protected, m_protectionHash, hideTags,
                 hideMaterials, bcProtectionHash, info, m_customIcon, lockedWith>>

\* hf->ReadBool / ReadString / ReadImage at position pos succeeds.
CanRead(items, pos, type) == pos <= Len(items) /\ items[pos].t = type

\* Mutant: the lock fields are read at every level.
ReadsLockFields_Always(level) == TRUE

ReadsLockFields(level) == level >= LockFieldsLevel

\* The members after Read and its return value; m is [icon, prot, hash].
ReadItems(m, items, level) ==
  IF ~CanRead(items, 1, "bool") THEN [m EXCEPT !.ret = FALSE]
  ELSE LET hasImage == items[1].v
           pos == IF hasImage THEN 3 ELSE 2
           m1 == [m EXCEPT !.icon = hasImage]
       IN IF hasImage /\ ~CanRead(items, 2, "image") THEN [m1 EXCEPT !.ret = FALSE]
          ELSE IF ~ReadsLockFields(level) THEN m1
          ELSE IF ~CanRead(items, pos, "bool") THEN [m1 EXCEPT !.ret = FALSE]
          ELSE LET m2 == [m1 EXCEPT !.prot = items[pos].v]
               IN IF ~m2.prot THEN m2
                  ELSE IF ~CanRead(items, pos + 1, "string")
                       THEN [m2 EXCEPT !.ret = FALSE]
                       ELSE [m2 EXCEPT !.hash = items[pos + 1].v]

Read(node, items, level) ==
  /\ node \in Containers
  /\ LET m == ReadItems([icon |-> m_customIcon[node], prot |-> m_protected[node],
                         hash |-> m_protectionHash[node], ret |-> TRUE],
                        items, level)
     IN /\ m_customIcon' = [m_customIcon EXCEPT ![node] = m.icon]
        /\ m_protected' = [m_protected EXCEPT ![node] = m.prot]
        /\ m_protectionHash' = [m_protectionHash EXCEPT ![node] = m.hash]
        /\ last' = [NoOp EXCEPT !.op = "read", !.node = node, !.record = items,
                                !.level = level, !.ret = m.ret]
  /\ rt' = NoRt
  /\ UNCHANGED <<nbits, active, hideTags, hideMaterials, bcProtectionHash, info,
                 hf, lockedWith>>

\* NRCONTAINER_ICON_LOAD with a readable image, and NRCONTAINER_ICON_CLEAR.
IconCommand(node, id) ==
  /\ node \in Containers
  /\ id \in {"NRCONTAINER_ICON_LOAD", "NRCONTAINER_ICON_CLEAR"}
  /\ m_customIcon' =
       IF m_protected[node] THEN m_customIcon
       ELSE [m_customIcon EXCEPT ![node] = (id = "NRCONTAINER_ICON_LOAD")]
  /\ last' = [NoOp EXCEPT !.op = "icon", !.node = node, !.id = id]
  /\ rt' = NoRt
  /\ UNCHANGED <<nbits, active, m_protected, m_protectionHash, hideTags,
                 hideMaterials, bcProtectionHash, info, hf, lockedWith>>

\* Records of the plugin before the lock fields existed, and their levels.
OldRecords == {IconItems(icon) : icon \in BOOLEAN}
OldLevels == {0, 999}

\* A file that ends after a locked flag.
CutRecords == {<<BoolItem(FALSE), BoolItem(TRUE)>>}

\* What the host hands to Read: the record Write produced, an old record at
\* its level, or a file that was cut short.
FileInputs ==
  {<<hf.data, LockFieldsLevel>>}
    \cup {<<r, l>> : r \in OldRecords, l \in OldLevels}
    \cup {<<r, LockFieldsLevel>> : r \in CutRecords}

\* The container that is written and read; it is locked and unlocked in
\* between.
FileContainer == "B"

NextFile ==
  \/ \E dlg \in Passwords \cup {CANCEL} : ToggleProtect(FileContainer, dlg)
  \/ \E id \in {"NRCONTAINER_ICON_LOAD", "NRCONTAINER_ICON_CLEAR"} :
       IconCommand(FileContainer, id)
  \/ Write(FileContainer)
  \/ \E f \in FileInputs : Read(FileContainer, f[1], f[2])

SpecFile == InitClean /\ [][NextFile]_vars

(***************************************************************************)
(* C13  Write always emits the locked flag and emits the hash exactly when *)
(* the container is locked; Read at level 1000 of the record Write         *)
(* produced succeeds and leaves the reading container with the locked      *)
(* value the writer had and, when that is true, with the writer's hash     *)
(* (the empty string and hash("") included), whatever the reader's members *)
(* were before.                                                            *)
(***************************************************************************)
PersistedRoundTrip ==
  [][\A c \in Containers :
       /\ (last'.op = "write" /\ last'.node = c)
          => ( /\ last'.ret
               /\ hf'.data = IconItems(m_customIcon[c]) \o
                      IF m_protected[c]
                      THEN <<BoolItem(TRUE), StringItem(m_protectionHash[c])>>
                      ELSE <<BoolItem(FALSE)>> )
       /\ ( /\ last'.op = "read" /\ last'.node = c
            /\ last'.level = LockFieldsLevel
            /\ hf.data # <<>>
            /\ last'.record = hf.data )
          => ( /\ last'.ret
               /\ m_protected'[c] = hf.locked
               /\ hf.locked => m_protectionHash'[c] = hf.hash )]_vars

\* The container was written while locked, locked again with another
\* password, and then read back: it holds the written hash again.
PersistedRoundTripWitness ==
  /\ last.op = "read"
  /\ last.ret
  /\ last.record = hf.data
  /\ hf.locked
  /\ m_protected[last.node]
  /\ m_protectionHash[last.node] = hf.hash
  /\ lockedWith[last.node] # hf.hash

(***************************************************************************)
(* C14  As claimed: after a successful Read of a record of a level below   *)
(* 1000 the container is not locked, whatever its lock state was before.   *)
(***************************************************************************)
OldRecordUnlocks ==
  (last.op = "read" /\ last.level < LockFieldsLevel /\ last.record \in OldRecords)
    => (last.ret /\ ~m_protected[last.node])

(***************************************************************************)
(* C14 (amended)  Read of a record of a level below 1000 succeeds and      *)
(* leaves m_protected and m_protectionHash as they were: the container is  *)
(* unlocked afterwards when it was unlocked before (as it is after Init),  *)
(* and still locked when it was locked.                                    *)
(***************************************************************************)
OldRecordKeepsLock ==
  [][\A c \in Containers :
       ( /\ last'.op = "read" /\ last'.node = c
         /\ last'.level < LockFieldsLevel
         /\ last'.record \in OldRecords )
       => ( /\ last'.ret
            /\ m_protected' = m_protected
            /\ m_protectionHash' = m_protectionHash
            /\ m_customIcon'[c] = last'.record[1].v )]_vars

\* An old record with an icon was read into a locked container.
OldRecordWitness ==
  /\ last.op = "read"
  /\ last.ret
  /\ last.level < LockFieldsLevel
  /\ last.record \in OldRecords
  /\ m_customIcon[last.node]
  /\ m_protected[last.node]
  /\ m_protectionHash[last.node] = HashString("")

(***************************************************************************)
(* The traversals on their own: HideHierarchy, HideMaterials and HideNodes *)
(* are applied to a document whose nodes are hidden, partly hidden or      *)
(* visible and whose containers are in any lock state, and then applied a  *)
(* second time with the same arguments.                                    *)
(***************************************************************************)
TraverseDocuments ==
  { [hidden |-> {}, partial |-> {}, active |-> {}, legacy |-> {}],
    [hidden |-> {"X", "O2", "Z", "tA2", "M2c", "M3"}, partial |-> {"B", "tX", "M1"},
     active |-> {"X", "O2", "B", "tA1", "M1", "M3", "P"}, legacy |-> {}],
    [hidden |-> {"B", "tA1", "M2", "P"}, partial |-> {"X", "Z"},
     active |-> {"A", "Z", "M2c"}, legacy |-> {"O2"}] }

InitTraverse ==
  /\ \E d \in TraverseDocuments :
       /\ nbits = [n \in Nodes |-> IF n \in d.hidden THEN NBits
                                   ELSE IF n \in d.partial THEN {"NBIT_OHIDE"}
                                   ELSE {}]
       /\ active = [n \in Nodes |-> n \in d.active]
       /\ bcProtectionHash = [o \in Objects |-> IF o \in d.legacy THEN "legacy" ELSE ""]
  /\ \E p \in [Containers -> BOOLEAN] :
       /\ m_protected = p
       /\ m_protectionHash = [c \in Containers |-> IF p[c] THEN HashString("") ELSE ""]
       /\ lockedWith = [c \in Containers |-> IF p[c] THEN HashString("") ELSE ""]
  /\ \E t \in BOOLEAN, m \in BOOLEAN :
       /\ hideTags = [c \in Containers |-> t]
       /\ hideMaterials = [c \in Containers |-> m]
  /\ info = [c \in Containers |-> [i \in InfoIds |-> ""]]
  /\ m_customIcon = [c \in Containers |-> FALSE]
  /\ hf = NoFile
  /\ last = NoOp
  /\ rt = NoRt

\* A call is the first one, or repeats the call before it.
CallTurn(call) ==
  IF last = NoOp THEN "once"
  ELSE IF last = [call EXCEPT !.outcome = "once", !.undo = last.undo] THEN "twice"
  ELSE "none"

CallFrame ==
  /\ rt' = NoRt
  /\ UNCHANGED <<m_protected, m_protectionHash, hideTags, hideMaterials,
                 bcProtectionHash, info, m_customIcon, hf, lockedWith>>

CallHideHierarchy(root, hide, sameLevel) ==
  LET call == [NoOp EXCEPT !.op = "HideHierarchy", !.root = root,
                           !.hide = IF hide THEN "hide" ELSE "reveal",
                           !.sameLevel = sameLevel]
      s == HideHierarchy(State, m_protected, bcProtectionHash, root, hide, THE_DOC,
                         sameLevel)
  IN /\ CallTurn(call) # "none"
     /\ nbits' = s.nbits
     /\ active' = s.active
     /\ last' = [call EXCEPT !.outcome = CallTurn(call), !.undo = s.undo]
     /\ CallFrame

CallHideMaterials(op, hide, doc, linkOk) ==
  LET call == [NoOp EXCEPT !.op = "HideMaterials", !.root = op,
                           !.hide = IF hide THEN "hide" ELSE "reveal",
                           !.links = (doc # NULL \/ linkOk)]
      s == HideMaterials(State, m_protected, bcProtectionHash, op, hide, doc, linkOk)
  IN /\ op \in Objects
     /\ CallTurn(call) # "none"
     /\ nbits' = s.nbits
     /\ active' = s.active
     /\ last' = [call EXCEPT !.outcome = CallTurn(call), !.undo = s.undo]
     /\ CallFrame

CallHideNodes(op, hide) ==
  LET call == [NoOp EXCEPT !.op = "HideNodes", !.root = op,
                           !.hide = IF hide THEN "hide" ELSE "reveal",
                           !.links = TRUE]
      s == HideNodes(State, m_protected, bcProtectionHash, op, THE_DOC, hide, TRUE)
  IN /\ op \in Containers
     /\ CallTurn(call) # "none"
     /\ nbits' = s.nbits
     /\ active' = s.active
     /\ last' = [call EXCEPT !.outcome = CallTurn(call), !.undo = s.undo]
     /\ CallFrame

\* BaseDocument* doc and what GetLink yields without one.
DocInputs == {<<THE_DOC, TRUE>>, <<NULL, TRUE>>, <<NULL, FALSE>>}

NextTraverse ==
  \/ \E root \in Nodes \cup {NULL}, hide \in BOOLEAN, sameLevel \in BOOLEAN :
       CallHideHierarchy(root, hide, sameLevel)
  \/ \E op \in Objects, hide \in BOOLEAN, d \in DocInputs :
       CallHideMaterials(op, hide, d[1], d[2])
  \/ \E op \in Containers, hide \in BOOLEAN : CallHideNodes(op, hide)

SpecTraverse == InitTraverse /\ [][NextTraverse]_vars

(***************************************************************************)
(* C15  Idempotence: a second HideHierarchy, HideMaterials or HideNodes    *)
(* call with the arguments of the call before it leaves every node with    *)
(* the bits and the selected flag the first call left.                     *)
(***************************************************************************)
Idempotent ==
  [][last'.outcome = "twice" => (nbits' = nbits /\ active' = active)]_vars

\* HideNodes hid the children of A twice; B, partly hidden at first, is
\* hidden.
IdempotentWitness ==
  /\ last.outcome = "twice"
  /\ last.op = "HideNodes"
  /\ last.root = "A"
  /\ last.hide = "hide"
  /\ Hidden(nbits, "B")
  /\ Hidden(nbits, "M1")

(***************************************************************************)
(* C16  Traversal result: HideHierarchy(root, hide, sameLevel) changes     *)
(* exactly root, with sameLevel its following siblings, and recursively    *)
(* the children of every visited node that is not a protected object;      *)
(* each of them ends with all six bits equal to hide and not selected,     *)
(* every other node keeps bits and selected flag, a null root changes      *)
(* nothing.                                                                *)
(***************************************************************************)
ProtectedObject(prot, n) == n \in Objects /\ IsProtectedNode(prot, n)

Visited(prot, root, sameLevel) ==
  LET roots == IF root = NULL THEN {}
               ELSE IF sameLevel THEN Chain(root) ELSE {root}
  IN roots \cup
     {d \in Nodes :
        \E r \in roots :
          /\ d \in Descendants(r)
          /\ \A a \in {r} \cup Descendants(r) :
               d \in Descendants(a) => ~ProtectedObject(prot, a)}

TraversalResult ==
  [][last'.op = "HideHierarchy" =>
       \A n \in Nodes :
         IF n \in Visited(m_protected, last'.root, last'.sameLevel)
         THEN /\ nbits'[n] = IF last'.hide = "hide" THEN NBits ELSE {}
              /\ ~active'[n]
         ELSE SameNode(n)]_vars

\* B and its child were revealed without sameLevel: the sibling after B is
\* still hidden and selected.
TraversalWitness ==
  /\ last.op = "HideHierarchy"
  /\ last.root = "B"
  /\ ~last.sameLevel
  /\ last.hide = "reveal"
  /\ Revealed(nbits, "B") /\ ~active["B"]
  /\ Revealed(nbits, "X") /\ ~active["X"]
  /\ Hidden(nbits, "O2") /\ active["O2"]

(***************************************************************************)
(* C18  Material resolution: HideMaterials(op, hide) changes exactly the   *)
(* materials linked by a texture tag on op or on an object below op, also  *)
(* below a nested locked container, and the materials below them; each     *)
(* ends with all six bits equal to hide and not selected.  The materials   *)
(* that follow a linked material in the list, every object and every tag   *)
(* are unchanged; a tag whose link resolves to null contributes nothing.   *)
(***************************************************************************)
LinkedWithChildren(op) ==
  LinkedMaterials(op) \cup UNION {Descendants(m) : m \in LinkedMaterials(op)}

MaterialResolution ==
  [][last'.op = "HideMaterials" =>
       \A n \in Nodes :
         IF last'.links /\ n \in LinkedWithChildren(last'.root)
         THEN /\ nbits'[n] = IF last'.hide = "hide" THEN NBits ELSE {}
              /\ ~active'[n]
         ELSE SameNode(n)]_vars

\* The materials of A were hidden while B was locked: M2, linked below B,
\* and its child are hidden, M3 after it is not.
MaterialWitness ==
  /\ last.op = "HideMaterials"
  /\ last.root = "A"
  /\ last.hide = "hide"
  /\ m_protected["B"]
  /\ Hidden(nbits, "M1") /\ Hidden(nbits, "M2") /\ Hidden(nbits, "M2c")
  /\ Revealed(nbits, "M3")
  /\ Revealed(nbits, "tZ")

(***************************************************************************)
(* C17  The six bits are never partially toggled: every document starts    *)
(* with the six bits of each node all equal, and after any sequence of     *)
(* ToggleProtect and ContainerProtect calls (HideNodes runs inside them)   *)
(* every object, tag and material has its six bits all set or all clear.   *)
(***************************************************************************)
BitsAllEqual ==
  \A n \in Nodes : nbits[n] = NBits \/ nbits[n] = {}

\* Both containers are locked; hidden and visible nodes exist side by side.
BitsAllEqualWitness ==
  /\ m_protected["A"] /\ m_protected["B"]
  /\ last.hide = "hide"
  /\ Hidden(nbits, "B") /\ Hidden(nbits, "M1")
  /\ Revealed(nbits, "P")

(***************************************************************************)
(* A document with nothing hidden and nothing protected, and every         *)
(* operation of Spec on it.                                                *)
(***************************************************************************)
SpecClean == InitClean /\ [][Next]_vars

(***************************************************************************)
(* C19  Full restore: starting with nothing hidden and nothing locked,     *)
(* after any sequence of ToggleProtect and ContainerProtect calls on the   *)
(* nested containers and any edits of the hide flags, in every state in    *)
(* which no container is locked every object, every tag of a container     *)
(* and every material referenced below a container has all six bits        *)
(* cleared.                                                                *)
(***************************************************************************)
FullRestore ==
  (\A c \in Containers : ~m_protected[c]) =>
     /\ \A o \in Objects : Revealed(nbits, o)
     /\ \A c \in Containers : \A t \in TagsOf(c) : Revealed(nbits, t)
     /\ \A c \in Containers : \A m \in RefMaterials(c) : Revealed(nbits, m)

\* Both containers have been locked and the last of them was just unlocked.
FullRestoreWitness ==
  /\ \A c \in Containers : ~m_protected[c] /\ ~IsEmpty(m_protectionHash[c])
  /\ last.op = "toggle"
  /\ last.outcome = "unlocked"
  /\ last.node = "A"
  /\ \A o \in Objects : Revealed(nbits, o)
  /\ \A m \in RefMaterials("A") : Revealed(nbits, m)

(***************************************************************************)
(* C20  Only the most recent lock's password unlocks: ToggleProtect on a   *)
(* locked container unlocks it exactly when the stored hash is hash("")   *)
(* or the entered password has the digest handed to the most recent lock   *)
(* of that container (by ToggleProtect or ContainerProtect); the stored    *)
(* hash of a locked container is that digest, and a password whose digest  *)
(* was left in the member by an earlier cycle does not unlock.             *)
(***************************************************************************)
MostRecentLockOnly ==
  [][\A c \in Containers :
       /\ m_protected'[c] => m_protectionHash'[c] = lockedWith'[c]
       /\ (last'.op = "toggle" /\ last'.node = c /\ m_protected[c])
          => /\ ~m_protected'[c] <=>
                  \/ m_protectionHash[c] = HashString("")
                  \/ /\ last'.entered \in Passwords
                     /\ HashString(last'.entered) = lockedWith[c]
             /\ ( /\ rt.stage = 1 /\ rt.c = c
                  /\ rt.hash0 # lockedWith[c]
                  /\ lockedWith[c] # HashString("")
                  /\ last'.entered \in Passwords
                  /\ HashString(last'.entered) = rt.hash0 )
                => m_protected'[c]]_vars

\* The container held hash("") from an earlier cycle, was locked with
\* another password and has just been unlocked with that password.
MostRecentLockWitness ==
  /\ rt.stage = 2
  /\ rt.hash0 = HashString("")
  /\ last.op = "toggle"
  /\ last.outcome = "unlocked"
  /\ last.node = rt.c
  /\ last.prompted
  /\ last.entered # ""
  /\ HashString(last.entered) = lockedWith[rt.c]
  /\ ~m_protected[rt.c]

====
